---- MODULE Spec2Model ----
(***************************************************************************)
(* Model of the S3 storage adapter of src/s3.server.js: the constructor    *)
(* FS.Store.S3 and the operations of the adapter it returns (fileKey,      *)
(* createReadStream with its retry loop, createWriteStream, remove,        *)
(* watch).                                                                 *)
(*                                                                         *)
(* JavaScript strings that the code slices or concatenates (folder, keys)  *)
(* are sequences of one-character strings; strings the code only passes    *)
(* on or tests for truthiness (bucket, ACL) are TLA+ strings.  JavaScript  *)
(* objects are functions on a set of property names, so that a missing     *)
(* property is a name outside DOMAIN.                                      *)
(***************************************************************************)
EXTENDS Integers, Sequences, FiniteSets, TLC

VARIABLES
  ctor,     \* the constructor call: its arguments, once it has been called
  store,    \* what the constructor produced: nothing yet, a throw, or the adapter
  s3,       \* the backend client (new AWS.S3(serviceParams)), once created
  reads,    \* per createReadStream call: closure variables, output and backend stream
  ret,      \* the outcome of the last synchronous adapter call
  removes   \* per remove call: the backend delete and the callback invocations

vars == <<ctor, store, s3, reads, ret, removes>>

-----------------------------------------------------------------------------
(* Bounds of the model *)

\* largest explicit options.tries a createReadStream call is given
MaxTries == 2
\* number of data chunks of a stored object
PayloadLen == 1
\* number of remove calls
MaxRemoves == 2

\* options.tries when the caller gives none
DefaultTries == 3
\* options.tryFreq (milliseconds) when the caller gives none
DefaultTryFreq == 1000

-----------------------------------------------------------------------------
(* JavaScript helpers *)

\* an object without properties
EmptyObj == [k \in {} |-> TRUE]

\* the object with the single property k
Prop(k, v) == [x \in {k} |-> v]

\* _.extend / FS.Utility.extend: properties of src copied over dest
Extend(dest, src) ==
  [k \in DOMAIN dest \cup DOMAIN src |-> IF k \in DOMAIN src THEN src[k] ELSE dest[k]]

\* delete obj[k]
Delete(obj, k) == [x \in DOMAIN obj \ {k} |-> obj[x]]

Has(obj, k) == k \in DOMAIN obj

\* truthiness of a property that is missing or a string kept as a sequence
TruthySeq(obj, k) == Has(obj, k) /\ Len(obj[k]) > 0

\* truthiness of a property that is missing or a string
Truthy(obj, k) == Has(obj, k) /\ obj[k] # ""

\* s.slice(-1): the last character, or the empty string of an empty string
LastChar(s) == IF Len(s) = 0 THEN <<>> ELSE <<s[Len(s)]>>

-----------------------------------------------------------------------------
(* Inputs *)

StoreNames == {"s3store"}
Buckets == {"", "bk"}
Folders == {<<"/">>, <<"f">>, <<"/", "f", "/">>}
Acls == {"public-read"}
\* the key functions a caller may configure as options.fileKey
KeyFns == {"byId"}
\* the file keys the framework hands to the adapter
FileKeys == {<<"k", "1">>, <<"k", "2">>}
\* identities of the createReadStream calls in flight at once
CallId == {1, 2}
\* the call of the specifications that follow one call alone
SoloCall == {1}

Optional(k, vals) == {EmptyObj} \cup {Prop(k, v) : v \in vals}

\* the options objects the constructor is called with (an omitted options
\* argument is the empty object after line 71)
CtorOptions ==
  {Extend(Extend(Extend(b, f), a), k) :
     b \in Optional("bucket", Buckets), f \in Optional("folder", Folders),
     a \in Optional("ACL", Acls), k \in Optional("fileKey", KeyFns)}

\* the file records the framework hands to fileKey: _getInfo(name) gives
\* info (missing when the record has no copy in the store), name() gives
\* name and name({store: name}) gives nameInStore
FileObjs ==
  {Extend(Extend([collectionName |-> <<"c">>, _id |-> id, name |-> <<"a">>], n), i) :
     id \in {<<"1">>, <<"2">>},
     n \in Optional("nameInStore", {<<>>, <<"b">>}),
     i \in Optional("info", {EmptyObj, Prop("key", <<>>), Prop("key", <<"r">>)})}
\* a null or undefined file record
NullFile == Prop("isNull", TRUE)

\* the options objects createWriteStream is called with (an omitted options
\* argument is the empty object after line 176)
WriteOptions ==
  {Extend(Extend(Extend(Extend(Extend(ct, ctc), al), md), ky), ac) :
     ct \in Optional("contentType", {"", "text/plain"}),
     ctc \in Optional("ContentType", {"image/png"}),
     al \in Optional("aliases", {<<"alias">>}),
     md \in Optional("metadata", {EmptyObj}),
     ky \in Optional("Key", {<<"o">>}),
     ac \in Optional("ACL", {"authenticated-read"})}

\* the write options of the specification of all the adapter's methods
ApiWriteOptions ==
  {EmptyObj, Prop("contentType", "text/plain"), Prop("Key", <<"o">>)}

\* what the backend reports to the callback of deleteObject
DeleteErrors == {"null", "NoSuchKey", "AccessDenied"}

\* the options objects createReadStream is called with
ReadOptions == Optional("tries", 1..MaxTries)

-----------------------------------------------------------------------------
(* The constructor, lines 66-111 *)

\* lines 74-84: the key prefix
Folder(options) ==
  IF Has(options, "folder") /\ Len(options.folder) > 0
  THEN LET f1 == IF SubSeq(options.folder, 1, 1) = <<"/">>
                 THEN Tail(options.folder) ELSE options.folder
       IN  IF LastChar(f1) # <<"/">> THEN f1 \o <<"/">> ELSE f1
  ELSE <<>>

\* line 87: !bucket
MissingBucketNoEmpty(options) == ~Has(options, "bucket")
MissingBucket(options) == ~Truthy(options, "bucket")

\* line 90
DefaultAcl(options) == IF Truthy(options, "ACL") THEN options.ACL ELSE "private"

\* lines 95-101
ServiceParams(options) ==
  Extend([Bucket |-> options.bucket, region |-> "null", accessKeyId |-> "null",
          secretAccessKey |-> "null", ACL |-> DefaultAcl(options)], options)

NoStore == [status |-> "none"]
NoClient == [created |-> FALSE]

\* the constructor's outcome: a throw (lines 69, 88) or the client of line 109
\* and the adapter of line 111, whose methods close over name, options,
\* folder, bucket and defaultAcl
NewStore(withNew, name, options) ==
  IF ~withNew
  THEN [store |-> [status |-> "threw",
                   error |-> "FS.Store.S3 missing keyword \"new\""],
        s3 |-> NoClient]
  ELSE IF MissingBucket(options)
  THEN [store |-> [status |-> "threw",
                   error |-> "FS.Store.S3 you must specify the \"bucket\" option"],
        s3 |-> NoClient]
  ELSE [store |-> [status |-> "ok", name |-> name, options |-> options,
                   folder |-> Folder(options), bucket |-> options.bucket,
                   defaultAcl |-> DefaultAcl(options)],
        s3 |-> [created |-> TRUE, params |-> ServiceParams(options)]]

-----------------------------------------------------------------------------
(* createReadStream, lines 131-170 *)

\* the object stored under a backend key: PayloadLen chunks
Payload(req) == [i \in 1..PayloadLen |-> [obj |-> req, i |-> i]]

IdleRead ==
  [phase |-> "idle", fileKey |-> <<>>, tries |-> 0, triesLeft |-> 0,
   out |-> <<>>, outEnded |-> FALSE, outErrors |-> <<>>,
   stream |-> "none", pos |-> 0, req |-> EmptyObj, timers |-> 0,
   opened |-> 0, failures |-> 0, partial |-> FALSE]

\* Readable.push(chunk): a push after end-of-stream is an error on the stream
Push(r, chunk) ==
  IF r.outEnded
  THEN [r EXCEPT !.outErrors = Append(@, [msg |-> "stream.push() after EOF"])]
  ELSE [r EXCEPT !.out = Append(@, chunk)]

\* Readable.push(null)
PushNull(r) == [r EXCEPT !.outEnded = TRUE]

\* lines 143-148: startStream opens a backend stream on folder + fileKey
StartStream(r) ==
  [r EXCEPT !.stream = "open", !.pos = 0, !.opened = @ + 1,
            !.req = [Bucket |-> store.bucket, Key |-> store.folder \o r.fileKey]]

\* line 150
NoTriesLeft(triesLeft) == triesLeft <= 0

\* lines 149-160: the 'error' handler
ErrorHandlerNoMask(r) ==
  LET e == [r EXCEPT !.outErrors =
              Append(@, [msg |-> "Failed to download file",
                         key |-> r.req.Key, bucket |-> store.bucket])]
  IN  IF NoTriesLeft(r.triesLeft)
      THEN PushNull(e)
      ELSE [e EXCEPT !.timers = @ + 1, !.triesLeft = @ - 1]
ErrorHandlerSyncRetry(r) ==
  IF NoTriesLeft(r.triesLeft)
  THEN PushNull([r EXCEPT !.outErrors =
                   Append(@, [msg |-> "Failed to download file",
                              key |-> r.req.Key, bucket |-> store.bucket])])
  ELSE StartStream([r EXCEPT !.triesLeft = @ - 1])
ErrorHandlerNoRetry(r) ==
  IF NoTriesLeft(r.triesLeft)
  THEN PushNull([r EXCEPT !.outErrors =
                   Append(@, [msg |-> "Failed to download file",
                              key |-> r.req.Key, bucket |-> store.bucket])])
  ELSE [r EXCEPT !.triesLeft = @ - 1]
ErrorHandlerDiscard(r) ==
  IF NoTriesLeft(r.triesLeft)
  THEN PushNull([r EXCEPT !.outErrors =
                   Append(@, [msg |-> "Failed to download file",
                              key |-> r.req.Key, bucket |-> store.bucket])])
  ELSE [r EXCEPT !.timers = @ + 1, !.triesLeft = @ - 1, !.out = <<>>]
ErrorHandlerNoDecrement(r) ==
  IF NoTriesLeft(r.triesLeft)
  THEN PushNull([r EXCEPT !.outErrors =
                   Append(@, [msg |-> "Failed to download file",
                              key |-> r.req.Key, bucket |-> store.bucket])])
  ELSE [r EXCEPT !.timers = @ + 1]
ErrorHandlerNoReturn(r) ==
  LET e == IF NoTriesLeft(r.triesLeft)
           THEN PushNull([r EXCEPT !.outErrors =
                            Append(@, [msg |-> "Failed to download file",
                                       key |-> r.req.Key, bucket |-> store.bucket])])
           ELSE r
  IN  [e EXCEPT !.timers = @ + 1, !.triesLeft = @ - 1]
ErrorHandler(r) ==
  IF NoTriesLeft(r.triesLeft)
  THEN PushNull([r EXCEPT !.outErrors =
                   Append(@, [msg |-> "Failed to download file",
                              key |-> r.req.Key, bucket |-> store.bucket])])
  ELSE [r EXCEPT !.timers = @ + 1, !.triesLeft = @ - 1]

\* lines 161-163: the 'data' handler
DataHandler(r, data) == Push(r, data)

\* lines 164-166: the 'end' handler
EndHandler(r) == PushNull(r)

\* lines 139-142: out and triesLeft are variables of the call; the state of
\* call c becomes r and the other calls keep theirs
SetReadSharedTries(c, r) ==
  [d \in CallId |-> IF d = c THEN r ELSE [reads[d] EXCEPT !.triesLeft = r.triesLeft]]
SetRead(c, r) == [reads EXCEPT ![c] = r]

-----------------------------------------------------------------------------
(* fileKey, lines 113-130 *)

\* the caller's key function options.fileKey applied to its two arguments
ApplyKeyFn(fn, fileObj, ctx) == <<"x", "/">> \o fileObj._id

\* line 115: fileObj && fileObj._getInfo(name)
HasInfo(fileObj) == fileObj # NullFile /\ Has(fileObj, "info")

\* line 117: info && info.key
HasRecordedKey(fileObj) == HasInfo(fileObj) /\ TruthySeq(fileObj.info, "key")

\* lines 123-125: the arguments the key function is called with
KeyFnContext(fileObj) ==
  IF HasInfo(fileObj)
  THEN [name |-> store.name, info |-> fileObj.info]
  ELSE [name |-> store.name]

\* line 129: filenameInStore || filename
FileName(fileObj) ==
  IF TruthySeq(fileObj, "nameInStore") THEN fileObj.nameInStore ELSE fileObj.name

\* line 129
ConventionKeyNoId(fileObj) ==
  fileObj.collectionName \o <<"/">> \o <<"-">> \o FileName(fileObj)
ConventionKey(fileObj) ==
  fileObj.collectionName \o <<"/">> \o fileObj._id \o <<"-">> \o FileName(fileObj)

\* line 122
UseKeyFnNever(fileObj) == FALSE
UseKeyFn(fileObj) == Has(store.options, "fileKey")

\* the outcome of fileKey(fileObj): the key returned, or the TypeError of
\* line 119 on a null record, and the calls made of options.fileKey
FileKeyOutcomeFnFirst(fileObj) ==
  IF fileObj # NullFile /\ UseKeyFn(fileObj)
  THEN [op |-> "fileKey", fileObj |-> fileObj, threw |-> FALSE,
        value |-> ApplyKeyFn(store.options.fileKey, fileObj, KeyFnContext(fileObj)),
        keyFnCalls |-> <<[fileObj |-> fileObj, ctx |-> KeyFnContext(fileObj)]>>]
  ELSE IF HasRecordedKey(fileObj)
  THEN [op |-> "fileKey", fileObj |-> fileObj, threw |-> FALSE,
        value |-> fileObj.info.key, keyFnCalls |-> <<>>]
  ELSE IF fileObj = NullFile
  THEN [op |-> "fileKey", fileObj |-> fileObj, threw |-> TRUE,
        error |-> "TypeError", keyFnCalls |-> <<>>]
  ELSE [op |-> "fileKey", fileObj |-> fileObj, threw |-> FALSE,
        value |-> ConventionKey(fileObj), keyFnCalls |-> <<>>]
FileKeyOutcome(fileObj) ==
  IF HasRecordedKey(fileObj)
  THEN [op |-> "fileKey", fileObj |-> fileObj, threw |-> FALSE,
        value |-> fileObj.info.key, keyFnCalls |-> <<>>]
  ELSE IF fileObj = NullFile
  THEN [op |-> "fileKey", fileObj |-> fileObj, threw |-> TRUE,
        error |-> "TypeError", keyFnCalls |-> <<>>]
  ELSE IF UseKeyFn(fileObj)
  THEN [op |-> "fileKey", fileObj |-> fileObj, threw |-> FALSE,
        value |-> ApplyKeyFn(store.options.fileKey, fileObj, KeyFnContext(fileObj)),
        keyFnCalls |-> <<[fileObj |-> fileObj, ctx |-> KeyFnContext(fileObj)]>>]
  ELSE [op |-> "fileKey", fileObj |-> fileObj, threw |-> FALSE,
        value |-> ConventionKey(fileObj), keyFnCalls |-> <<>>]

-----------------------------------------------------------------------------
(* createWriteStream, lines 175-198 *)

\* lines 178-187: the content type renamed, the unsupported options deleted
Normalize(options) ==
  Delete(Delete(Delete(IF Truthy(options, "contentType")
                       THEN Extend(options, Prop("ContentType", options.contentType))
                       ELSE options,
                       "aliases"), "contentType"), "metadata")

\* lines 190-195: the defaults the caller's options are merged over
WriteDefaults(fileKey) ==
  [Bucket |-> store.bucket, Key |-> store.folder \o fileKey, fileKey |-> fileKey,
   ACL |-> store.defaultAcl]

\* lines 190-197: the parameters handed to S3.createWriteStream
WriteParamsDefaultsWin(fileKey, options) ==
  Extend(Normalize(options), WriteDefaults(fileKey))
WriteParams(fileKey, options) ==
  Extend(WriteDefaults(fileKey), Normalize(options))

-----------------------------------------------------------------------------
(* remove, lines 199-207 *)

\* lines 201-204: the request handed to S3.deleteObject
DeleteRequestNoFolder(fileKey) == [Bucket |-> store.bucket, Key |-> fileKey]
DeleteRequest(fileKey) == [Bucket |-> store.bucket, Key |-> store.folder \o fileKey]

\* line 205: !error
SuccessAlways(error) == TRUE
Success(error) == error = "null"

\* line 205: the arguments the callback is invoked with
CallbackArgs(error) == [error |-> error, success |-> Success(error)]

-----------------------------------------------------------------------------
(* watch, lines 208-210 *)

\* line 209: the throw of every call
WatchOutcomeSilent == [op |-> "watch", threw |-> FALSE]
WatchOutcome ==
  [op |-> "watch", threw |-> TRUE,
   error |-> "S3 storage adapter does not support the sync option"]

-----------------------------------------------------------------------------
(* Actions *)

Init ==
  /\ ctor = [called |-> FALSE]
  /\ store = NoStore
  /\ s3 = NoClient
  /\ reads = [c \in CallId |-> IdleRead]
  /\ ret = [op |-> "none"]
  /\ removes = <<>>

Construct ==
  \E withNew \in BOOLEAN, name \in StoreNames, options \in CtorOptions :
    /\ ~ctor.called
    /\ ctor' = [called |-> TRUE, withNew |-> withNew, name |-> name,
                options |-> options]
    /\ store' = NewStore(withNew, name, options).store
    /\ s3' = NewStore(withNew, name, options).s3
    /\ UNCHANGED <<reads, ret, removes>>

\* lines 131-142, 168-169: a call of createReadStream opens the first stream
CreateReadStream(c, fileKey, options) ==
    /\ store.status = "ok"
    /\ reads[c].phase = "idle"
    /\ LET o == Extend([tries |-> DefaultTries, tryFreq |-> DefaultTryFreq], options)
       IN  reads' = SetRead(c, StartStream(
                      [IdleRead EXCEPT !.phase = "called", !.fileKey = fileKey,
                                       !.tries = o.tries, !.triesLeft = o.tries]))
    /\ UNCHANGED <<ctor, store, s3, ret, removes>>

\* the backend stream of call c emits 'data' with the next chunk of the object
BackendData(c) ==
    /\ reads[c].stream = "open"
    /\ reads[c].pos < PayloadLen
    /\ LET r == reads[c]
       IN  reads' = SetRead(c, DataHandler([r EXCEPT !.pos = @ + 1],
                                           Payload(r.req)[r.pos + 1]))
    /\ UNCHANGED <<ctor, store, s3, ret, removes>>

\* the backend stream of call c emits 'end' after the whole object
BackendEnd(c) ==
    /\ reads[c].stream = "open"
    /\ reads[c].pos = PayloadLen
    /\ reads' = SetRead(c, EndHandler([reads[c] EXCEPT !.stream = "ended"]))
    /\ UNCHANGED <<ctor, store, s3, ret, removes>>

\* the backend stream of call c emits 'error' and is dead from then on
BackendError(c) ==
    /\ reads[c].stream = "open"
    /\ LET r == reads[c]
       IN  reads' = SetRead(c, ErrorHandler(
                      [r EXCEPT !.stream = "errored", !.failures = @ + 1,
                                !.partial = @ \/ r.pos > 0]))
    /\ UNCHANGED <<ctor, store, s3, ret, removes>>

\* line 158: a timer set by the error handler fires and runs startStream
TimerFire(c) ==
    /\ reads[c].timers > 0
    /\ reads' = SetRead(c, StartStream([reads[c] EXCEPT !.timers = @ - 1]))
    /\ UNCHANGED <<ctor, store, s3, ret, removes>>

\* a call of fileKey
FileKey(fileObj) ==
    /\ store.status = "ok"
    /\ ret' = FileKeyOutcome(fileObj)
    /\ UNCHANGED <<ctor, store, s3, reads, removes>>

\* a call of createWriteStream: the parameters reach S3.createWriteStream
CreateWriteStream(fileKey, options) ==
    /\ store.status = "ok"
    /\ ret' = [op |-> "createWriteStream", fileKey |-> fileKey, options |-> options,
               params |-> WriteParams(fileKey, options)]
    /\ UNCHANGED <<ctor, store, s3, reads, removes>>

\* a call of remove: one deleteObject request goes to the backend
Remove(fileKey) ==
    /\ store.status = "ok"
    /\ Len(removes) < MaxRemoves
    /\ removes' = Append(removes, [fileKey |-> fileKey,
                                   requests |-> <<DeleteRequest(fileKey)>>,
                                   completions |-> <<>>, callbacks |-> <<>>])
    /\ UNCHANGED <<ctor, store, s3, reads, ret>>

\* the backend completes a deleteObject request and runs lines 204-206
DeleteObjectDone ==
  \E i \in DOMAIN removes, error \in DeleteErrors :
    /\ Len(removes[i].completions) < Len(removes[i].requests)
    /\ removes' = [removes EXCEPT ![i].completions = Append(@, error),
                                  ![i].callbacks = Append(@, CallbackArgs(error))]
    /\ UNCHANGED <<ctor, store, s3, reads, ret>>

\* lines 208-210: a call of watch
Watch ==
  /\ store.status = "ok"
  /\ ret' = WatchOutcome
  /\ UNCHANGED <<ctor, store, s3, reads, removes>>

\* the steps of the read call c
ReadStep(c) ==
  \/ \E fileKey \in FileKeys, options \in ReadOptions :
       CreateReadStream(c, fileKey, options)
  \/ BackendData(c)
  \/ BackendEnd(c)
  \/ BackendError(c)
  \/ TimerFire(c)

\* one store and one createReadStream call
Next ==
  \/ Construct
  \/ \E c \in SoloCall : ReadStep(c)

Spec == Init /\ [][Next]_vars

\* one store and one createReadStream call whose backend and timers go on:
\* a timer that was set fires, and an open backend stream comes to its 'end'
\* or to an 'error'
Fairness ==
  \A c \in SoloCall :
    /\ WF_vars(TimerFire(c))
    /\ WF_vars(BackendEnd(c) \/ BackendError(c))

SpecLive == Spec /\ Fairness

\* a store constructed for reading: the ACL and the key function play no part
\* in createReadStream
ReadCtorOptions ==
  {o \in CtorOptions : ~MissingBucket(o) /\ ~Has(o, "ACL") /\ ~Has(o, "fileKey")}

InitConc ==
  \E name \in StoreNames, options \in ReadCtorOptions :
    /\ ctor = [called |-> TRUE, withNew |-> TRUE, name |-> name, options |-> options]
    /\ store = NewStore(TRUE, name, options).store
    /\ s3 = NewStore(TRUE, name, options).s3
    /\ reads = [c \in CallId |-> IdleRead]
    /\ ret = [op |-> "none"]
    /\ removes = <<>>

\* one constructed store and the createReadStream calls of CallId in flight
NextConc == \E c \in CallId : ReadStep(c)

SpecConc == InitConc /\ [][NextConc]_vars

\* one store and the calls of fileKey
NextKey ==
  \/ Construct
  \/ \E fileObj \in FileObjs \cup {NullFile} : FileKey(fileObj)

SpecKey == Init /\ [][NextKey]_vars

\* one store and the calls of createWriteStream
NextWrite ==
  \/ Construct
  \/ \E fileKey \in FileKeys, options \in WriteOptions :
       CreateWriteStream(fileKey, options)

SpecWrite == Init /\ [][NextWrite]_vars

\* one store and the calls of remove with the backend's completions
NextRemove ==
  \/ Construct
  \/ \E fileKey \in FileKeys : Remove(fileKey)
  \/ DeleteObjectDone

SpecRemove == Init /\ [][NextRemove]_vars

\* the constructor and the calls of every method of the adapter it returns;
\* what the backend does with the requests is left to the other specifications
NextApi ==
  \/ Construct
  \/ \E fileObj \in FileObjs \cup {NullFile} : FileKey(fileObj)
  \/ \E c \in SoloCall, fileKey \in FileKeys, options \in ReadOptions :
       CreateReadStream(c, fileKey, options)
  \/ \E fileKey \in FileKeys, options \in ApiWriteOptions :
       CreateWriteStream(fileKey, options)
  \/ \E fileKey \in FileKeys : Remove(fileKey)
  \/ Watch

SpecApi == Init /\ [][NextApi]_vars

-----------------------------------------------------------------------------
(* Properties of createReadStream *)

\* the last n elements of s
Suffix(s, n) == SubSeq(s, Len(s) - n + 1, Len(s))

\* every attempt of call c so far has failed without delivering data
OnlyFailures(c) ==
  /\ reads[c].phase = "called"
  /\ reads[c].tries >= 1
  /\ reads[c].out = <<>>
  /\ reads[c].stream \in {"open", "errored"}

\* C1: with tries = N >= 1 and a backend whose every read attempt fails, the
\* output stream gets exactly one terminal error, emitted upon the N-th
\* failure, so that exactly N backend streams are opened, and no data.
C1_TerminalErrorAtNthFailure ==
  \A c \in CallId :
    OnlyFailures(c) =>
      /\ reads[c].opened <= reads[c].tries
      /\ reads[c].failures < reads[c].tries => reads[c].outErrors = <<>>
      /\ reads[c].failures >= reads[c].tries =>
           Len(reads[c].outErrors) = 1 /\ reads[c].outEnded

\* C2: an output stream that is closed has delivered precisely the complete
\* object, or has had a terminal error emitted on it.
C2_CompleteOrError ==
  \A c \in CallId :
    reads[c].outEnded =>
      \/ reads[c].out = Payload(reads[c].req)
      \/ reads[c].outErrors # <<>>

\* C3: when the attempts of a call with tries = N fail k < N times and the
\* next attempt succeeds, the output carries the full payload of the
\* successful attempt followed by end-of-stream (and nothing else when the
\* failed attempts delivered nothing), and no error is emitted on it.
C3_RetriesMasked ==
  \A c \in CallId :
    (reads[c].stream = "ended" /\ reads[c].failures < reads[c].tries) =>
      /\ reads[c].outErrors = <<>>
      /\ reads[c].outEnded
      /\ Len(reads[c].out) >= PayloadLen
      /\ Suffix(reads[c].out, PayloadLen) = Payload(reads[c].req)
      /\ ~reads[c].partial => reads[c].out = Payload(reads[c].req)

\* two failures, then a success, with tries = 3
C3_Witness ==
  \E c \in CallId :
    /\ reads[c].tries = 3
    /\ reads[c].failures = 2
    /\ reads[c].stream = "ended"
    /\ reads[c].out = Payload(reads[c].req)
    /\ reads[c].outEnded

\* C9: with several createReadStream calls in flight, a step of one call
\* (an error, a retry, a data chunk, an end) leaves the remaining tries and
\* the output stream of every other call as they were.
C9_CallsIndependent ==
  [][\A c, d \in CallId :
       (c # d /\ reads[c]' # reads[c]) => reads[d]' = reads[d]]_vars

\* two calls on the same key: one has failed and is retrying, the other has
\* delivered its object with its tries untouched
C9_Witness ==
  \E c, d \in CallId :
    /\ c # d
    /\ reads[c].fileKey = reads[d].fileKey
    /\ reads[c].phase = "called" /\ reads[d].phase = "called"
    /\ reads[c].triesLeft < reads[c].tries
    /\ reads[c].stream = "open"
    /\ reads[d].triesLeft = reads[d].tries
    /\ reads[d].stream = "ended"
    /\ reads[d].out = Payload(reads[d].req)

-----------------------------------------------------------------------------
(* Properties of fileKey *)

\* the file record has a key recorded for the store
RecordedKey(fileObj) ==
  /\ fileObj # NullFile
  /\ "info" \in DOMAIN fileObj
  /\ "key" \in DOMAIN fileObj.info
  /\ fileObj.info.key # <<>>

KeyFnConfigured == "fileKey" \in DOMAIN ctor.options

\* C4: for a file record with a recorded key, fileKey returns exactly that
\* key, with or without a key function configured, and does not call the
\* key function.
C4_RecordedKeyReturned ==
  (ret.op = "fileKey" /\ RecordedKey(ret.fileObj)) =>
    /\ ~ret.threw
    /\ ret.value = ret.fileObj.info.key
    /\ ret.keyFnCalls = <<>>

\* a recorded key returned by a store that has a key function
C4_Witness ==
  /\ ret.op = "fileKey"
  /\ RecordedKey(ret.fileObj)
  /\ KeyFnConfigured
  /\ ret.value = <<"r">>

\* C5: for a file record without a recorded key, in a store without a key
\* function, fileKey returns collectionName + "/" + id + "-" + filename,
\* the filename being the store-specific name when there is one and the
\* generic name otherwise.
C5_ConventionKey ==
  (/\ ret.op = "fileKey"
   /\ ret.fileObj # NullFile
   /\ ~RecordedKey(ret.fileObj)
   /\ ~KeyFnConfigured) =>
    /\ ~ret.threw
    /\ ret.value =
         ret.fileObj.collectionName \o <<"/">> \o ret.fileObj._id \o <<"-">> \o
         (IF "nameInStore" \in DOMAIN ret.fileObj /\ ret.fileObj.nameInStore # <<>>
          THEN ret.fileObj.nameInStore
          ELSE ret.fileObj.name)

\* the key "c/1-b" made with the store-specific name b
C5_Witness ==
  /\ ret.op = "fileKey"
  /\ ~KeyFnConfigured
  /\ ~ret.threw
  /\ ret.value = <<"c", "/", "1", "-", "b">>

\* C6: for a file record without a recorded key, in a store with a key
\* function, fileKey calls the function once with the file record and a
\* context of the store name and the existing info, and returns its result
\* as it is, never the collection/id-filename key.
C6_KeyFnResultReturned ==
  (/\ ret.op = "fileKey"
   /\ ret.fileObj # NullFile
   /\ ~RecordedKey(ret.fileObj)
   /\ KeyFnConfigured) =>
    /\ ~ret.threw
    /\ Len(ret.keyFnCalls) = 1
    /\ ret.keyFnCalls[1].fileObj = ret.fileObj
    /\ ret.keyFnCalls[1].ctx.name = ctor.name
    /\ "info" \in DOMAIN ret.fileObj =>
         ret.keyFnCalls[1].ctx.info = ret.fileObj.info
    /\ ret.value = ApplyKeyFn(ctor.options.fileKey, ret.keyFnCalls[1].fileObj,
                              ret.keyFnCalls[1].ctx)
    /\ ret.value # ConventionKey(ret.fileObj)

\* the key function called on a record whose info records no key
C6_Witness ==
  /\ ret.op = "fileKey"
  /\ KeyFnConfigured
  /\ ret.fileObj # NullFile
  /\ "info" \in DOMAIN ret.fileObj
  /\ ~RecordedKey(ret.fileObj)
  /\ Len(ret.keyFnCalls) = 1
  /\ ret.value = <<"x", "/", "2">>

-----------------------------------------------------------------------------
(* Properties of createWriteStream *)

\* the caller's options as the backend is to see them: aliases, metadata and
\* contentType gone and, when rename holds, the contentType put in as
\* ContentType
CallerParams(options, rename) ==
  LET kept == [k \in DOMAIN options \ {"aliases", "metadata", "contentType"} |->
                 options[k]]
  IN  IF rename
      THEN Extend(kept, [ContentType |-> options.contentType])
      ELSE kept

\* C7: the parameters passed to the backend are the defaults {Bucket, Key =
\* prefix + key, ACL} overridden by the caller's options, a caller
\* contentType appearing as ContentType, and aliases, metadata and
\* contentType absent.
C7_ParamsAsClaimed ==
  ret.op = "createWriteStream" =>
    ret.params =
      Extend([Bucket |-> ctor.options.bucket,
              Key |-> Folder(ctor.options) \o ret.fileKey,
              ACL |-> DefaultAcl(ctor.options)],
             CallerParams(ret.options, "contentType" \in DOMAIN ret.options))

\* C7, amended: the defaults are {Bucket, Key = prefix + key, fileKey = key,
\* ACL}, and it is a non-empty caller contentType that appears as
\* ContentType (in place of a ContentType the caller gave).
C7_ParamsMerged ==
  ret.op = "createWriteStream" =>
    /\ ret.params =
         Extend([Bucket |-> ctor.options.bucket,
                 Key |-> Folder(ctor.options) \o ret.fileKey,
                 fileKey |-> ret.fileKey,
                 ACL |-> DefaultAcl(ctor.options)],
                CallerParams(ret.options,
                             /\ "contentType" \in DOMAIN ret.options
                             /\ ret.options.contentType # ""))
    /\ DOMAIN ret.params \cap {"aliases", "metadata", "contentType"} = {}

\* a call that gives every option: the contentType wins over ContentType,
\* the caller's Key and ACL win over the defaults
C7_Witness ==
  /\ ret.op = "createWriteStream"
  /\ DOMAIN ret.options =
       {"contentType", "ContentType", "aliases", "metadata", "Key", "ACL"}
  /\ ret.options.contentType = "text/plain"
  /\ ret.params.ContentType = "text/plain"
  /\ ret.params.Key = <<"o">>
  /\ ret.params.ACL = "authenticated-read"
  /\ ret.params.Bucket = "bk"

-----------------------------------------------------------------------------
(* Properties of remove *)

\* C8: a remove call issues exactly one backend delete, against prefix + key
\* in the configured bucket, and its callback runs once per backend
\* completion with the backend's error unchanged and success true exactly
\* when there was no error.
C8_RemoveForwardsOutcome ==
  \A i \in DOMAIN removes :
    /\ removes[i].requests =
         <<[Bucket |-> ctor.options.bucket,
            Key |-> store.folder \o removes[i].fileKey]>>
    /\ Len(removes[i].callbacks) = Len(removes[i].completions)
    /\ \A j \in DOMAIN removes[i].callbacks :
         /\ removes[i].callbacks[j].error = removes[i].completions[j]
         /\ removes[i].callbacks[j].success = (removes[i].completions[j] = "null")

\* a delete the backend answered with 'not found'
C8_Witness ==
  \E i \in DOMAIN removes :
    removes[i].callbacks = <<[error |-> "NoSuchKey", success |-> FALSE]>>

-----------------------------------------------------------------------------
(* Properties of the constructor *)

NoCallIssued ==
  /\ \A c \in CallId : reads[c] = IdleRead
  /\ ret.op = "none"
  /\ removes = <<>>

\* C10: a construction with a missing or empty bucket raises an error: no
\* backend client is created, no adapter is returned, and no read, write or
\* remove is ever issued from it.
C10_NoBucketNoStore ==
  (/\ ctor.called
   /\ ("bucket" \notin DOMAIN ctor.options \/ ctor.options.bucket = "")) =>
    /\ store.status = "threw"
    /\ ctor.withNew => store.error = "FS.Store.S3 you must specify the \"bucket\" option"
    /\ ~s3.created
    /\ NoCallIssued

\* a construction with new, an empty bucket name and other options given
C10_Witness ==
  /\ ctor.called
  /\ ctor.withNew
  /\ DOMAIN ctor.options = {"bucket", "folder", "ACL", "fileKey"}
  /\ ctor.options.bucket = ""
  /\ store.status = "threw"

-----------------------------------------------------------------------------
(* Further properties of fileKey, the constructor and watch *)

\* C11: fileKey has no error conditions: for every file record, a null one
\* included, it returns a key and does not raise.
C11_FileKeyNeverThrows ==
  ret.op = "fileKey" => ~ret.threw

\* the prefix of a store constructed with folder = '/'
SlashPrefix == Folder(Prop("folder", <<"/">>))

\* C12: the folder option defaults to '/': a store constructed without a
\* folder reads, writes and removes under the prefix of a store constructed
\* with folder = '/'.
C12_FolderDefaultsToSlash ==
  (store.status = "ok" /\ "folder" \notin DOMAIN ctor.options) =>
    /\ \A c \in CallId :
         reads[c].phase = "called" =>
           reads[c].req.Key = SlashPrefix \o reads[c].fileKey
    /\ (ret.op = "createWriteStream" /\ "Key" \notin DOMAIN ret.options) =>
         ret.params.Key = SlashPrefix \o ret.fileKey
    /\ \A i \in DOMAIN removes :
         \A j \in DOMAIN removes[i].requests :
           removes[i].requests[j].Key = SlashPrefix \o removes[i].fileKey

\* C13: every call of watch fails at once with the 'not supported' error,
\* whatever the configuration of the store, and issues nothing to the
\* backend: no read stream, no delete.
C13_WatchNotSupported ==
  [][ret'.op = "watch" =>
       /\ ret'.threw
       /\ ret'.error = "S3 storage adapter does not support the sync option"
       /\ ret.op # "watch" => UNCHANGED <<ctor, store, s3, reads, removes>>]_vars

\* watch has thrown in a store that has a folder, an ACL and a key function
C13_Witness ==
  /\ ret.op = "watch"
  /\ ret.threw
  /\ DOMAIN ctor.options = {"bucket", "folder", "ACL", "fileKey"}

-----------------------------------------------------------------------------
(* Further properties of createReadStream *)

\* C14: a backend stream error while tries remain takes exactly one from
\* triesLeft and sets exactly one timer, and opens no backend stream itself;
\* a backend stream is re-opened only by a timer that fires, on the bucket
\* and prefix + key of the call, and is read from byte 0.
C14_RetryByTimer ==
  [][\A c \in CallId :
       /\ (reads'[c].failures > reads[c].failures /\ reads[c].triesLeft > 0) =>
            /\ reads'[c].failures = reads[c].failures + 1
            /\ reads'[c].triesLeft = reads[c].triesLeft - 1
            /\ reads'[c].timers = reads[c].timers + 1
            /\ reads'[c].opened = reads[c].opened
            /\ reads'[c].stream # "open"
       /\ (reads[c].phase = "called" /\ reads'[c].opened > reads[c].opened) =>
            /\ reads[c].timers > 0
            /\ reads'[c].timers = reads[c].timers - 1
            /\ reads'[c].opened = reads[c].opened + 1
            /\ reads'[c].triesLeft = reads[c].triesLeft
            /\ reads'[c].stream = "open"
            /\ reads'[c].pos = 0
            /\ reads'[c].req = reads[c].req
            /\ reads'[c].req = [Bucket |-> ctor.options.bucket,
                                Key |-> store.folder \o reads[c].fileKey]]_vars

\* the stream re-opened after a failure that came after data: the second
\* stream is at byte 0 and one try is gone
C14_Witness ==
  \E c \in CallId :
    /\ reads[c].opened = 2
    /\ reads[c].failures = 1
    /\ reads[c].partial
    /\ reads[c].stream = "open"
    /\ reads[c].pos = 0
    /\ reads[c].timers = 0
    /\ reads[c].triesLeft = reads[c].tries - 1

\* s is made of at most k non-empty prefixes of p, one after the other
RECURSIVE PrefixRuns(_, _, _)
PrefixRuns(s, p, k) ==
  \/ s = <<>>
  \/ /\ k > 0
     /\ \E n \in 1..Len(p) :
          /\ n <= Len(s)
          /\ SubSeq(s, 1, n) = SubSeq(p, 1, n)
          /\ PrefixRuns(SubSeq(s, n + 1, Len(s)), p, k - 1)

Live(c) == (IF reads[c].stream = "open" THEN 1 ELSE 0) + reads[c].timers

\* C17: in every state of a call with tries = N >= 1, 0 <= triesLeft <= N,
\* the backend streams opened so far plus the pending timers are
\* (N - triesLeft) + 1, and at most one backend stream or timer is live
\* (each backend stream emitting at most one error).
C17_TriesAccounting ==
  \A c \in CallId :
    (reads[c].phase = "called" /\ reads[c].tries >= 1) =>
      /\ 0 <= reads[c].triesLeft
      /\ reads[c].triesLeft <= reads[c].tries
      /\ reads[c].opened + reads[c].timers =
           (reads[c].tries - reads[c].triesLeft) + 1
      /\ Live(c) <= 1

\* the last retry of a call with tries = 2 is pending
C17_Witness ==
  \E c \in CallId :
    /\ reads[c].tries = 2
    /\ reads[c].triesLeft = 0
    /\ reads[c].opened = 2
    /\ reads[c].timers = 1

\* C19: once the output of a call is closed (end-of-stream after the
\* backend's end or after the terminal error), the call has no live backend
\* stream and no pending timer, and nothing of it changes any more: no
\* stream is opened, no timer set, nothing pushed or emitted on the output.
C19_ClosedIsFinal ==
  [][\A c \in CallId :
       reads[c].outEnded =>
         /\ reads[c].stream # "open"
         /\ reads[c].timers = 0
         /\ reads'[c] = reads[c]]_vars

\* an output closed by the terminal error after data was forwarded
C19_Witness ==
  \E c \in CallId :
    /\ reads[c].outEnded
    /\ Len(reads[c].outErrors) = 1
    /\ reads[c].out # <<>>
    /\ reads[c].triesLeft = 0

\* C15: a createReadStream call terminates: when every backend attempt comes
\* to its end or an error and every timer fires, the output gets
\* end-of-stream or the terminal error; and the call is at rest (no live
\* backend stream, no pending timer) only after a success or after the
\* terminal error that follows the exhaustion of the tries.
C15_ReadTerminates ==
  /\ \A c \in CallId : (reads[c].phase = "called") ~> reads[c].outEnded
  /\ [](\A c \in CallId :
          (reads[c].phase = "called" /\ Live(c) = 0) =>
            /\ reads[c].outEnded
            /\ \/ reads[c].stream = "ended" /\ reads[c].outErrors = <<>>
               \/ /\ reads[c].stream = "errored"
                  /\ reads[c].triesLeft = 0
                  /\ Len(reads[c].outErrors) = 1)

\* a call with the default tries that ended in the terminal error
C15_Witness ==
  \E c \in CallId :
    /\ reads[c].tries = DefaultTries
    /\ reads[c].triesLeft = 0
    /\ reads[c].outEnded
    /\ Len(reads[c].outErrors) = 1
    /\ Live(c) = 0

-----------------------------------------------------------------------------
(* The backend object of a file key *)

\* the backend object a createWriteStream call writes to
WriteTarget == [Bucket |-> ret.params.Bucket, Key |-> ret.params.Key]

\* reads, writes and removes of one file key address one backend object,
\* for the writes that satisfy givenOptions
SameObject(givenOptions) ==
  /\ \A c \in CallId : \A i \in DOMAIN removes :
       (reads[c].phase = "called" /\ reads[c].fileKey = removes[i].fileKey) =>
         \A j \in DOMAIN removes[i].requests : removes[i].requests[j] = reads[c].req
  /\ (ret.op = "createWriteStream" /\ givenOptions) =>
       /\ \A c \in CallId :
            (reads[c].phase = "called" /\ reads[c].fileKey = ret.fileKey) =>
              WriteTarget = reads[c].req
       /\ \A i \in DOMAIN removes :
            removes[i].fileKey = ret.fileKey =>
              \A j \in DOMAIN removes[i].requests :
                removes[i].requests[j] = WriteTarget

\* C18: for every file key and every caller option set, createWriteStream
\* writes to the (bucket, prefix + key) object that createReadStream reads
\* and remove deletes for that file key.
C18_OneObjectPerKey == SameObject(TRUE)

\* C18, amended: this holds for every caller option set that gives neither
\* Key nor Bucket.
C18_OneObjectPerKeyUnlessOverridden ==
  SameObject(DOMAIN ret.options \cap {"Key", "Bucket"} = {})

\* a read, a write with options and a remove of the same file key in a
\* store with a folder
C18_Witness ==
  /\ store.status = "ok"
  /\ store.folder = <<"f", "/">>
  /\ ret.op = "createWriteStream"
  /\ ret.options = [contentType |-> "text/plain"]
  /\ \E c \in CallId : reads[c].phase = "called" /\ reads[c].fileKey = ret.fileKey
  /\ \E i \in DOMAIN removes : removes[i].fileKey = ret.fileKey
  /\ WriteTarget = [Bucket |-> "bk", Key |-> <<"f", "/">> \o ret.fileKey]

====
